---- MODULE Spec2Model ----
(***************************************************************************)
(* Model of the MeteoSIX -> InfluxDB incremental ETL                       *)
(* (src/meteosix_to_influx.py): place resolution with its cache file,      *)
(* batch partitioning, change detection against the ledger file, the       *)
(* transform of forecast features into points, the writer and the run      *)
(* orchestration of __main__.                                              *)
(*                                                                         *)
(* Strings are sequences of one-character strings, so that strip, lower    *)
(* and join are computed as the code computes them.  A Python dict is a    *)
(* sequence of [k, v] pairs in insertion order (json keeps that order).    *)
(***************************************************************************)
EXTENDS Naturals, Sequences, FiniteSets

\* Python's None: a value no string (sequence of characters) is equal to.
Null == <<"None">>

\* ---------------------------------------------------------------- bounds
\* Number of program runs (process starts) explored.
MaxRuns == 2
\* Number of place entries in the cache file left by earlier deployments.
MaxOldPlaces == 21
\* Longest list and largest size given to chunked on its own.
MaxChunkLen == 4
MaxChunkSize == 3

\* ------------------------------------------------------------- strings
IsSpace(c) == c \in {" ", "\t", "\n"}

LowerChar(c) ==
    CASE c = "V" -> "v"
      [] c = "L" -> "l"
      [] c = "X" -> "x"
      [] c = "O" -> "o"
      [] OTHER -> c

RECURSIVE LStrip(_)
LStrip(s) == IF s # <<>> /\ IsSpace(Head(s)) THEN LStrip(Tail(s)) ELSE s

RECURSIVE RStrip(_)
RStrip(s) ==
    IF s # <<>> /\ IsSpace(s[Len(s)]) THEN RStrip(SubSeq(s, 1, Len(s) - 1)) ELSE s

\* str.strip()
Strip(s) == RStrip(LStrip(s))

\* str.lower()
Lower(s) == [i \in 1..Len(s) |-> LowerChar(s[i])]

\* Truthiness of an optional string: None and "" are falsy.
Truthy(x) == x # Null /\ x # <<>>

\* (x or "")
OrEmpty(x) == IF Truthy(x) THEN x ELSE <<>>

normalize_query(q) == Lower(Strip(q))

\* ",".join(xs)
RECURSIVE Join(_)
Join(xs) ==
    IF xs = <<>> THEN <<>>
    ELSE IF Len(xs) = 1 THEN xs[1]
    ELSE xs[1] \o <<",">> \o Join(Tail(xs))

\* ---------------------------------------------------------------- dicts
EmptyDict == <<>>

DictHas(d, k) == \E i \in 1..Len(d) : d[i].k = k

DictIndex(d, k) == CHOOSE i \in 1..Len(d) : d[i].k = k

\* d[k]
DictGet(d, k) == d[DictIndex(d, k)].v

\* d[k] = v: an existing key keeps its position, a new key is appended.
DictSet(d, k, v) ==
    IF DictHas(d, k)
    THEN [d EXCEPT ![DictIndex(d, k)] = [k |-> k, v |-> v]]
    ELSE Append(d, [k |-> k, v |-> v])

DictKeys(d) == {d[i].k : i \in 1..Len(d)}

\* list(d.values())
DictValues(d) == [i \in 1..Len(d) |-> d[i].v]

\* ---------------------------------------------------------------- chunked
\* range(start, stop, step)
RECURSIVE Range(_, _, _)
Range(start, stop, step) ==
    IF start >= stop THEN <<>> ELSE <<start>> \o Range(start + step, stop, step)

\* xs[a:b], with Python's clamping of b to len(xs)
Slice(xs, a, b) == SubSeq(xs, a + 1, IF b > Len(xs) THEN Len(xs) ELSE b)

\* Mutant: the last, shorter chunk is lost.
chunkedDropTail(xs, n) ==
    LET starts == Range(0, Len(xs) - (Len(xs) % n), n)
    IN  [j \in 1..Len(starts) |-> Slice(xs, starts[j], starts[j] + n)]

\* [xs[i:i+n] for i in range(0, len(xs), n)]
chunked(xs, n) ==
    LET starts == Range(0, Len(xs), n)
    IN  [j \in 1..Len(starts) |-> Slice(xs, starts[j], starts[j] + n)]

MAX_IDS_PER_REQUEST == 20

\* ------------------------------------------------------- place search data
Digits == <<"0", "1", "2", "3", "4", "5", "6", "7", "8", "9">>

TwoDigits(i) == <<Digits[(i \div 10) + 1], Digits[(i % 10) + 1]>>

\* One feature of a findPlaces response.
PlaceFeature(id, name) ==
    [properties |-> [id |-> id, name |-> name, municipality |-> <<"m">>,
                     province |-> Null, type |-> <<"l">>]]

\* Feature collections the place-search provider may return.
PlaceFeaturesPool ==
    { <<>>,
      << PlaceFeature(<<"2">>, <<"v", "x">>), PlaceFeature(<<" ", "1">>, <<"V">>) >>,
      << PlaceFeature(Null, <<"l">>) >> }

\* Query lists a caller may pass to resolve_place_ids.
QueryListPool ==
    { << <<"l">>, <<"v">> >>,
      << <<" ", "V">>, <<"v">> >> }

\* A cache entry written by an earlier successful resolution.
OldPlace(i) ==
    [k |-> <<"o">> \o TwoDigits(i),
     v |-> [query |-> <<"O">> \o TwoDigits(i), id |-> TwoDigits(i),
            name |-> <<"O">>, municipality |-> <<"m">>, province |-> Null,
            type |-> <<"l">>]]

OldPlaces(n) == [i \in 1..n |-> OldPlace(i)]

\* ------------------------------------------------------------ findPlaces
\* Mutant: the first returned feature, whatever its name.
pick_first_feature(query, features) ==
    IF features # <<>> THEN <<features[1]>> ELSE <<>>

\* An Optional[dict] result is a sequence of length 0 (None) or 1.
pick_best_feature(query, features) ==
    LET q == normalize_query(query)
        exact == SelectSeq(features,
                    LAMBDA f : normalize_query(OrEmpty(f.properties.name)) = q)
    IN  IF exact # <<>> THEN <<exact[1]>>
        ELSE IF features # <<>> THEN <<features[1]>> ELSE <<>>

\* Mutant: the unresolved entry carries an empty id instead of None.
UnresolvedEntryEmptyId(q) == [id |-> <<>>, query |-> q]

\* The entry resolve_place_ids stores for a query without any feature.
UnresolvedEntry(q) == [id |-> Null, query |-> q]

\* The entry resolve_place_ids stores for the selected feature.
ResolvedEntry(q, best) ==
    [query |-> q,
     id |-> Strip(OrEmpty(best.properties.id)),
     name |-> best.properties.name,
     municipality |-> best.properties.municipality,
     province |-> best.properties.province,
     type |-> best.properties.type]

\* Mutant: the cache is never consulted.
CacheHitNever(d, key) == FALSE

\* key in out and out[key].get("id")
CacheHit(d, key) == DictHas(d, key) /\ Truthy(DictGet(d, key).id)

\* Mutant: the ids of all entries, resolved or not.
LOCATION_IDS_AllEntries(places) ==
    LET vals == DictValues(places)
    IN  [i \in 1..Len(vals) |-> OrEmpty(vals[i].id)]

\* [p["id"] for p in places.values() if p.get("id")]
LOCATION_IDS(places) ==
    LET vals == SelectSeq(DictValues(places), LAMBDA p : Truthy(p.id))
    IN  [i \in 1..Len(vals) |-> vals[i].id]

\* --------------------------------------------------------- forecast data
WIND == <<"w", "i", "n", "d">>

TEMPERATURE == <<"t">>

HourlyValue(ti, v, mv, dv, mr) ==
    [timeInstant |-> ti, value |-> v, moduleValue |-> mv, directionValue |-> dv,
     modelRun |-> mr]

ForecastVariable(name, values) ==
    [name |-> name, model |-> <<"W">>, grid |-> Null, units |-> <<"u">>,
     values |-> values]

\* A feature of a forecast response; exception is Null when the key is absent.
ForecastFeature(exc, id, variables) ==
    [exception |-> exc,
     properties |-> [id |-> id, name |-> <<"V">>, municipality |-> <<"m">>,
                     province |-> Null, type |-> <<"l">>,
                     days |-> << [variables |-> variables] >>]]

T1 == <<"T", "1">>
T2 == <<"T", "2">>
T3 == <<"T", "3">>

\* Three hourly temperatures, one of them empty.
TemperatureFeature ==
    ForecastFeature(Null, <<" ", "1">>,
        << ForecastVariable(TEMPERATURE,
             << HourlyValue(T1, <<"1", "8", ".", "5">>, Null, Null, Null),
                HourlyValue(T2, <<>>, Null, Null, Null),
                HourlyValue(T3, <<"N", "/", "A">>, Null, Null, <<"r">>) >>) >>)

WindFeature ==
    ForecastFeature(Null, <<"2">>,
        << ForecastVariable(WIND,
             << HourlyValue(T1, Null, <<"1", "2", ".", "3">>, <<"2", "7", "0">>, Null),
                HourlyValue(T2, <<"5">>, Null, <<"9", "0">>, Null),
                HourlyValue(T3, Null, Null, Null, Null),
                HourlyValue(Null, Null, <<"1">>, <<"1">>, Null) >>) >>)

\* A feature that carries the provider's per-place exception.
ErrorFeature == ForecastFeature(<<"e">>, Null, <<>>)

\* A feature whose only record has neither value nor model run.
NoPointFeature ==
    ForecastFeature(Null, <<"3">>,
        << ForecastVariable(TEMPERATURE,
             << HourlyValue(T1, Null, Null, Null, Null) >>) >>)

\* A feature whose timestamp isoparse rejects.
BadTimeFeature ==
    ForecastFeature(Null, <<"3">>,
        << ForecastVariable(TEMPERATURE,
             << HourlyValue(<<"?">>, <<"1">>, Null, Null, Null) >>) >>)

ForecastResponse(exc, features) == [exception |-> exc, features |-> features]

\* The responses the forecast provider may return (r.json()), in a fixed order.
ResponsePool ==
    << ForecastResponse(FALSE, << TemperatureFeature, ErrorFeature, WindFeature >>),
       ForecastResponse(FALSE, << ErrorFeature, NoPointFeature >>),
       ForecastResponse(FALSE, << BadTimeFeature >>),
       ForecastResponse(TRUE, <<>>) >>

HexDigits == <<"a", "b", "c", "d">>

\* sha256 of the canonical serialisation: one digest per distinct document.
stable_hash(obj) ==
    << HexDigits[CHOOSE i \in 1..Len(ResponsePool) : ResponsePool[i] = obj] >>

\* ------------------------------------------------- iter_timeseries_points
IsDigit(c) == \E i \in 1..Len(Digits) : Digits[i] = c

\* Whether float(s) succeeds for a string of digits and dots.
IsNumeric(s) ==
    /\ s # Null
    /\ \E i \in 1..Len(s) : IsDigit(s[i])
    /\ \A i \in 1..Len(s) : IsDigit(s[i]) \/ s[i] = "."
    /\ Cardinality({i \in 1..Len(s) : s[i] = "."}) <= 1

\* Whether dtparser.isoparse(ti) succeeds.
IsIsoTime(ti) == Len(ti) = 2 /\ ti[1] = "T" /\ IsDigit(ti[2])

RECURSIVE Concat(_)
Concat(seqs) == IF seqs = <<>> THEN <<>> ELSE Head(seqs) \o Concat(Tail(seqs))

Tags(props, var) ==
    [place_id |-> Strip(OrEmpty(props.id)),
     place_name |-> OrEmpty(props.name),
     municipality |-> OrEmpty(props.municipality),
     province |-> OrEmpty(props.province),
     type |-> OrEmpty(props.type),
     variable |-> OrEmpty(var.name),
     model |-> OrEmpty(var.model),
     grid |-> OrEmpty(var.grid),
     units |-> OrEmpty(var.units)]

\* float(s) of a numeric string, as its repr: "270" becomes 270.0.
ToFloat(s) ==
    IF \E i \in 1..Len(s) : s[i] = "." THEN s ELSE s \o <<".", "0">>

\* Mutant: the direction is only looked at when there is no module (elif).
FieldsWindElif(var_name, hv) ==
    LET f0 == EmptyDict
        f1 == IF var_name = WIND
              THEN IF hv.moduleValue # Null
                   THEN DictSet(f0, "wind_module", ToFloat(hv.moduleValue))
                   ELSE IF hv.directionValue # Null
                        THEN DictSet(f0, "wind_direction", ToFloat(hv.directionValue))
                        ELSE f0
              ELSE IF hv.value # Null /\ hv.value # <<>>
                   THEN IF IsNumeric(hv.value)
                        THEN DictSet(f0, "value", ToFloat(hv.value))
                        ELSE DictSet(f0, "value_str", hv.value)
                   ELSE f0
    IN  IF Truthy(hv.modelRun) THEN DictSet(f1, "model_run", hv.modelRun) ELSE f1

\* Mutant: a value float() rejects is dropped (except: pass).
FieldsDropNonNumeric(var_name, hv) ==
    LET f0 == EmptyDict
        f1 == IF var_name = WIND
              THEN LET a == IF hv.moduleValue # Null
                            THEN DictSet(f0, "wind_module", ToFloat(hv.moduleValue)) ELSE f0
                   IN  IF hv.directionValue # Null
                       THEN DictSet(a, "wind_direction", ToFloat(hv.directionValue)) ELSE a
              ELSE IF hv.value # Null /\ hv.value # <<>> /\ IsNumeric(hv.value)
                   THEN DictSet(f0, "value", ToFloat(hv.value))
                   ELSE f0
    IN  IF Truthy(hv.modelRun) THEN DictSet(f1, "model_run", hv.modelRun) ELSE f1

\* The fields dict of one hourly record.
Fields(var_name, hv) ==
    LET f0 == EmptyDict
        f1 == IF var_name = WIND
              THEN LET a == IF hv.moduleValue # Null
                            THEN DictSet(f0, "wind_module", ToFloat(hv.moduleValue)) ELSE f0
                   IN  IF hv.directionValue # Null
                       THEN DictSet(a, "wind_direction", ToFloat(hv.directionValue)) ELSE a
              ELSE IF hv.value # Null /\ hv.value # <<>>
                   THEN IF IsNumeric(hv.value)
                        THEN DictSet(f0, "value", ToFloat(hv.value))
                        ELSE DictSet(f0, "value_str", hv.value)
                   ELSE f0
    IN  IF Truthy(hv.modelRun) THEN DictSet(f1, "model_run", hv.modelRun) ELSE f1

\* Whether the record makes iter_timeseries_points raise (isoparse or float).
HourlyRaises(var_name, hv) ==
    /\ Truthy(hv.timeInstant)
    /\ \/ ~IsIsoTime(hv.timeInstant)
       \/ /\ var_name = WIND
          /\ \/ hv.moduleValue # Null /\ ~IsNumeric(hv.moduleValue)
             \/ hv.directionValue # Null /\ ~IsNumeric(hv.directionValue)

\* Mutant: a record without timeInstant is not dropped.
HourlyPointsNoTimeCheck(props, var, hv) ==
    LET fields == Fields(OrEmpty(var.name), hv)
    IN  IF fields # EmptyDict
        THEN << [ts |-> hv.timeInstant, fields |-> fields, tags |-> Tags(props, var)] >>
        ELSE <<>>

\* Mutant: the point is appended whether it has a field or not.
HourlyPointsAlways(props, var, hv) ==
    IF ~Truthy(hv.timeInstant) THEN <<>>
    ELSE << [ts |-> hv.timeInstant, fields |-> Fields(OrEmpty(var.name), hv),
             tags |-> Tags(props, var)] >>

\* The points of one hourly record: none or one.
HourlyPoints(props, var, hv) ==
    IF ~Truthy(hv.timeInstant) THEN <<>>
    ELSE LET fields == Fields(OrEmpty(var.name), hv)
         IN  IF fields # EmptyDict
             THEN << [ts |-> hv.timeInstant, fields |-> fields, tags |-> Tags(props, var)] >>
             ELSE <<>>

VariablePoints(props, var) ==
    Concat([i \in 1..Len(var.values) |-> HourlyPoints(props, var, var.values[i])])

DayPoints(props, day) ==
    Concat([i \in 1..Len(day.variables) |-> VariablePoints(props, day.variables[i])])

iter_timeseries_points(feature) ==
    IF Truthy(feature.exception) THEN <<>>
    ELSE LET props == feature.properties
         IN  Concat([i \in 1..Len(props.days) |-> DayPoints(props, props.days[i])])

\* Whether iter_timeseries_points(feature) raises instead of returning.
FeatureRaises(feature) ==
    /\ ~Truthy(feature.exception)
    /\ \E d \in 1..Len(feature.properties.days) :
         \E v \in 1..Len(feature.properties.days[d].variables) :
            LET var == feature.properties.days[d].variables[v]
            IN  \E i \in 1..Len(var.values) : HourlyRaises(OrEmpty(var.name), var.values[i])

\* ------------------------------------------------------------------ state
VARIABLES
    runs,            \* number of process starts so far
    pc,              \* position of the running process
    deployed,        \* the query lists the deployment passes to resolve_place_ids
    API_KEY,         \* METEOSIX_API_KEY of this process: "set" or "unset", and
                     \* "unread" until the code first tests it
    INFLUX_TOKEN,    \* the writer's credentials of this process, likewise
    placesFile,      \* contents of PLACES_PATH
    ledgerFile,      \* contents of STATE_PATH
    place_queries, qi, cache, out,                       \* resolve_place_ids
    batches, bi, state, data, h, all_points, skipped,    \* run_etl
    total_written,
    failure,         \* the exception that ended the process, "none" otherwise
    searched,        \* the findPlaces requests of this process, in order
    produced,        \* entries this process stored in out, by key
    placeSaves,      \* writes of PLACES_PATH by this process
    fetched,         \* batch indexes requested by this process, in order
    written,         \* the return value of the last successful write_to_influx
    writes,          \* batch indexes whose points the writer accepted, in order
    lostWrite,       \* <<key, digest, run>> of the batch that was written but not
                     \* recorded when the previous process was killed
    lastRun,         \* the batches and responses of the previous process, if it
                     \* ran run_etl to its end
    responses,       \* the forecast responses this process received, in order
    slept,           \* whether time.sleep was called since the last request
    xs, n,           \* the arguments of a call of chunked
    chunks,          \* its result
    chunkDone,       \* whether the call has returned
    pickQuery, pickFeatures,    \* the arguments of a call of pick_best_feature
    pickBest,        \* its result
    pickDone,        \* whether the call has returned
    tsFeature,       \* the argument of a call of iter_timeseries_points
    tsPoints,        \* its result
    tsRaised,        \* whether the call raised instead of returning
    tsDone,          \* whether the call has ended
    pollPc,          \* position of the poller process
    pollCycle,       \* number of the polling cycle
    pollLoc,         \* index in LOCATIONS of the location at hand
    pollLog,         \* outcome of each location of this cycle so far
    pollPrev         \* outcomes of the previous cycle

chunkVars == <<xs, n, chunks, chunkDone>>
pickVars == <<pickQuery, pickFeatures, pickBest, pickDone>>
tsVars == <<tsFeature, tsPoints, tsRaised, tsDone>>
pollVars == <<pollPc, pollCycle, pollLoc, pollLog, pollPrev>>
etlProgramVars == <<runs, deployed, API_KEY, INFLUX_TOKEN>>
constVars == <<deployed, chunkVars, pickVars, tsVars, pollVars>>
envVars == <<runs, constVars, API_KEY, INFLUX_TOKEN>>
fileVars == <<placesFile, ledgerFile>>
resolveVars == <<place_queries, qi, cache, out, searched, produced, placeSaves>>
etlVars == <<batches, bi, state, data, h, all_points, skipped, total_written,
             fetched, written, writes>>
histVars == <<lostWrite, lastRun, responses, slept>>
vars == <<envVars, fileVars, pc, failure, resolveVars, etlVars, histVars>>

NoData == ForecastResponse(FALSE, <<>>)
NoDigest == <<>>
NoLoss == <<>>
NoRun == <<>>

Terminal == {"idle", "done", "aborted", "exit"}

InitLocals ==
    /\ place_queries = <<>> /\ qi = 1 /\ cache = EmptyDict /\ out = EmptyDict
    /\ searched = <<>> /\ produced = EmptyDict /\ placeSaves = 0
    /\ batches = <<>> /\ bi = 1 /\ state = EmptyDict /\ data = NoData
    /\ h = NoDigest /\ all_points = <<>> /\ skipped = 0 /\ total_written = 0
    /\ fetched = <<>> /\ written = 0 /\ writes = <<>>
    /\ responses = <<>> /\ slept = FALSE

NoChunkCall == xs = <<>> /\ n = 1 /\ chunks = <<>> /\ chunkDone = FALSE

NoPickCall ==
    pickQuery = <<>> /\ pickFeatures = <<>> /\ pickBest = <<>> /\ pickDone = FALSE

NoFeature == ForecastFeature(Null, Null, <<>>)

NoTransformCall ==
    tsFeature = NoFeature /\ tsPoints = <<>> /\ tsRaised = FALSE /\ tsDone = FALSE

\* poller.py is not running.
NoPoller ==
    /\ pollPc = "off" /\ pollCycle = 0 /\ pollLoc = 1
    /\ pollLog = <<>> /\ pollPrev = <<>>

\* The library is used with any query list, on a cache file that may hold the
\* entries of earlier deployments.
Init ==
    /\ runs = 0 /\ pc = "idle" /\ failure = "none"
    /\ deployed = QueryListPool
    /\ API_KEY = "unread" /\ INFLUX_TOKEN = "unread"
    /\ placesFile \in {EmptyDict, OldPlaces(MaxOldPlaces)}
    /\ ledgerFile = EmptyDict
    /\ lostWrite = NoLoss /\ lastRun = NoRun
    /\ InitLocals
    /\ NoChunkCall /\ NoPickCall /\ NoTransformCall /\ NoPoller

\* The program as shipped: one fixed PLACE_QUERIES list, no files at first.
InitMain ==
    /\ runs = 0 /\ pc = "idle" /\ failure = "none"
    /\ deployed \in {{qs} : qs \in QueryListPool}
    /\ API_KEY = "unread" /\ INFLUX_TOKEN = "unread"
    /\ placesFile = EmptyDict
    /\ ledgerFile = EmptyDict
    /\ lostWrite = NoLoss /\ lastRun = NoRun
    /\ InitLocals
    /\ NoChunkCall /\ NoPickCall /\ NoTransformCall /\ NoPoller

\* ----------------------------------------------------------- process start
\* __main__ starts: resolve_place_ids loads the cache and copies it to out.
StartRun ==
    /\ pc \in Terminal
    /\ runs < MaxRuns
    /\ runs' = runs + 1
    /\ \E qs \in deployed : place_queries' = qs
    /\ API_KEY' = "unread"
    /\ INFLUX_TOKEN' = "unread"
    /\ cache' = placesFile
    /\ out' = placesFile
    /\ qi' = 1 /\ searched' = <<>> /\ produced' = EmptyDict /\ placeSaves' = 0
    /\ batches' = <<>> /\ bi' = 1 /\ state' = EmptyDict /\ data' = NoData
    /\ h' = NoDigest /\ all_points' = <<>> /\ skipped' = 0 /\ total_written' = 0
    /\ fetched' = <<>> /\ written' = 0 /\ writes' = <<>>
    /\ pc' = "resolve"
    /\ failure' = "none"
    /\ lostWrite' = IF lostWrite # NoLoss /\ lostWrite[3] = runs THEN lostWrite ELSE NoLoss
    /\ lastRun' = IF pc = "done" THEN <<batches, responses>> ELSE NoRun
    /\ responses' = <<>> /\ slept' = FALSE
    /\ UNCHANGED <<constVars, fileVars>>

\* The process is killed between two statements; its memory is lost.
Crash ==
    /\ pc \notin Terminal
    /\ pc' = "idle"
    /\ failure' = "killed"
    /\ lostWrite' = IF pc = "written" THEN <<Join(batches[bi]), h, runs>> ELSE lostWrite
    /\ responses' = <<>> /\ slept' = FALSE
    /\ UNCHANGED lastRun
    /\ place_queries' = <<>> /\ qi' = 1 /\ cache' = EmptyDict /\ out' = EmptyDict
    /\ searched' = <<>> /\ produced' = EmptyDict /\ placeSaves' = 0
    /\ batches' = <<>> /\ bi' = 1 /\ state' = EmptyDict /\ data' = NoData
    /\ h' = NoDigest /\ all_points' = <<>> /\ skipped' = 0 /\ total_written' = 0
    /\ fetched' = <<>> /\ written' = 0 /\ writes' = <<>>
    /\ UNCHANGED <<envVars, fileVars>>

\* ------------------------------------------------------- resolve_place_ids
\* Mutant: the exception is swallowed and the loop goes on.
AbortSwallowed(why) == pc' = pc /\ failure' = why

\* An uncaught exception ends the process.
Abort(why) == pc' = "aborted" /\ failure' = why

CurrentQuery == place_queries[qi]

\* One findPlaces request: its query, whether find_places returned, and the
\* features of the response.
SearchCall(q, ok, features) == [query |-> q, ok |-> ok, features |-> features]

CurrentKey == normalize_query(CurrentQuery)

InResolveLoop == pc = "resolve" /\ qi <= Len(place_queries)

\* if key in out and out[key].get("id"): continue
ResolveCached ==
    /\ InResolveLoop
    /\ CacheHit(out, CurrentKey)
    /\ qi' = qi + 1
    /\ UNCHANGED <<envVars, fileVars, pc, failure, place_queries, cache,
                   out, searched, produced, placeSaves, etlVars, histVars>>

\* find_places without METEOSIX_API_KEY raises before any request.
SearchNoKey ==
    /\ InResolveLoop
    /\ ~CacheHit(out, CurrentKey)
    /\ API_KEY \in {"unread", "unset"}
    /\ API_KEY' = "unset"
    /\ Abort("search_no_key")
    /\ UNCHANGED <<runs, constVars, INFLUX_TOKEN, fileVars, resolveVars, etlVars, histVars>>

\* raise_for_status() fails, or the response carries "exception": find_places
\* raises and resolve_place_ids does not catch it.
SearchFail ==
    /\ InResolveLoop
    /\ ~CacheHit(out, CurrentKey)
    /\ API_KEY \in {"unread", "set"}
    /\ API_KEY' = "set"
    /\ searched' = Append(searched, SearchCall(CurrentQuery, FALSE, <<>>))
    /\ \E why \in {"search_http", "search_exception"} : Abort(why)
    /\ UNCHANGED <<runs, constVars, INFLUX_TOKEN, fileVars, place_queries, qi, cache, out,
                   produced, placeSaves, etlVars, lostWrite, lastRun, responses>>
    /\ slept' = FALSE

\* find_places returns; pick_best_feature finds nothing: out[key] = unresolved.
SearchEmpty ==
    /\ InResolveLoop
    /\ ~CacheHit(out, CurrentKey)
    /\ API_KEY \in {"unread", "set"}
    /\ API_KEY' = "set"
    /\ \E features \in PlaceFeaturesPool :
         /\ pick_best_feature(CurrentQuery, features) = <<>>
         /\ searched' = Append(searched, SearchCall(CurrentQuery, TRUE, features))
         /\ out' = DictSet(out, CurrentKey, UnresolvedEntry(CurrentQuery))
         /\ produced' = DictSet(produced, CurrentKey, UnresolvedEntry(CurrentQuery))
    /\ qi' = qi + 1
    /\ pc' = "resolve"
    /\ UNCHANGED <<runs, constVars, INFLUX_TOKEN, fileVars, failure, place_queries, cache,
                   placeSaves, etlVars, lostWrite, lastRun, responses>>
    /\ slept' = FALSE

\* find_places returns; the best feature's entry is stored, then the sleep.
SearchFound ==
    /\ InResolveLoop
    /\ ~CacheHit(out, CurrentKey)
    /\ API_KEY \in {"unread", "set"}
    /\ API_KEY' = "set"
    /\ \E features \in PlaceFeaturesPool :
         LET best == pick_best_feature(CurrentQuery, features)
         IN  /\ best # <<>>
             /\ searched' = Append(searched, SearchCall(CurrentQuery, TRUE, features))
             /\ out' = DictSet(out, CurrentKey, ResolvedEntry(CurrentQuery, best[1]))
             /\ produced' =
                  DictSet(produced, CurrentKey, ResolvedEntry(CurrentQuery, best[1]))
    /\ pc' = "resolve_sleep"
    /\ UNCHANGED <<runs, constVars, INFLUX_TOKEN, fileVars, failure, place_queries, qi, cache,
                   placeSaves, etlVars, lostWrite, lastRun, responses>>
    /\ slept' = FALSE

\* time.sleep(0.2), then the next query.
ResolveSleep ==
    /\ pc = "resolve_sleep"
    /\ pc' = "resolve"
    /\ qi' = qi + 1
    /\ UNCHANGED <<envVars, fileVars, failure, place_queries, cache, out,
                   searched, produced, placeSaves, etlVars, lostWrite, lastRun, responses>>
    /\ slept' = TRUE

\* Mutant: only the entries of this run are saved.
ResolveSaveNewOnly ==
    /\ pc = "resolve"
    /\ qi > Len(place_queries)
    /\ placesFile' = produced
    /\ placeSaves' = placeSaves + 1
    /\ pc' = "main_ids"
    /\ UNCHANGED <<envVars, ledgerFile, failure, place_queries, qi, cache,
                   out, searched, produced, etlVars, histVars>>

\* save_json(PLACES_PATH, out); return out
ResolveSave ==
    /\ pc = "resolve"
    /\ qi > Len(place_queries)
    /\ placesFile' = out
    /\ placeSaves' = placeSaves + 1
    /\ pc' = "main_ids"
    /\ UNCHANGED <<envVars, ledgerFile, failure, place_queries, qi, cache,
                   out, searched, produced, etlVars, histVars>>

\* ----------------------------------------------------------------- __main__
\* if not LOCATION_IDS: raise SystemExit(...)
MainExit ==
    /\ pc = "main_ids"
    /\ LOCATION_IDS(out) = <<>>
    /\ pc' = "exit"
    /\ failure' = "no_location_ids"
    /\ UNCHANGED <<envVars, fileVars, resolveVars, etlVars, histVars>>

\* run_etl(LOCATION_IDS): load the ledger, partition the ids.
EtlStart ==
    /\ pc = "main_ids"
    /\ LOCATION_IDS(out) # <<>>
    /\ state' = ledgerFile
    /\ batches' = chunked(LOCATION_IDS(out), MAX_IDS_PER_REQUEST)
    /\ bi' = 1
    /\ total_written' = 0
    /\ pc' = "etl_loop"
    /\ UNCHANGED <<envVars, fileVars, failure, resolveVars, data, h,
                   all_points, skipped, fetched, written, writes, histVars>>

\* ------------------------------------------------------------------ run_etl
InEtlLoop == pc = "etl_loop" /\ bi <= Len(batches)

\* batch_key = ",".join(batch)
batch_key == Join(batches[bi])

\* Mutant: every batch is processed.
ShouldSkipNever(ledger, key, digest) == FALSE

\* Mutant: every batch is skipped.
ShouldSkipAlways(ledger, key, digest) == TRUE

\* state.get(batch_key) == h
ShouldSkip(ledger, key, digest) == DictHas(ledger, key) /\ DictGet(ledger, key) = digest

\* request_forecast without METEOSIX_API_KEY raises before any request.
FetchNoKey ==
    /\ InEtlLoop
    /\ API_KEY \in {"unread", "unset"}
    /\ API_KEY' = "unset"
    /\ Abort("fetch_no_key")
    /\ UNCHANGED <<runs, constVars, INFLUX_TOKEN, fileVars, resolveVars, etlVars, histVars>>

\* raise_for_status() fails: request_forecast raises, run_etl does not catch it.
FetchHttpError ==
    /\ InEtlLoop
    /\ API_KEY \in {"unread", "set"}
    /\ API_KEY' = "set"
    /\ fetched' = Append(fetched, bi)
    /\ Abort("fetch_http")
    /\ UNCHANGED <<runs, constVars, INFLUX_TOKEN, fileVars, resolveVars, batches, bi, state, data,
                   h, all_points, skipped, total_written, written, writes, lostWrite, lastRun, responses>>
    /\ slept' = FALSE

\* The response carries a top-level "exception": request_forecast raises.
FetchException ==
    /\ InEtlLoop
    /\ API_KEY \in {"unread", "set"}
    /\ API_KEY' = "set"
    /\ \E i \in 1..Len(ResponsePool) : ResponsePool[i].exception
    /\ fetched' = Append(fetched, bi)
    /\ Abort("fetch_exception")
    /\ UNCHANGED <<runs, constVars, INFLUX_TOKEN, fileVars, resolveVars, batches, bi, state, data,
                   h, all_points, skipped, total_written, written, writes, lostWrite, lastRun, responses>>
    /\ slept' = FALSE

\* data = request_forecast(batch, variables); h = stable_hash(data)
FetchOk ==
    /\ InEtlLoop
    /\ API_KEY \in {"unread", "set"}
    /\ API_KEY' = "set"
    /\ \E i \in 1..Len(ResponsePool) :
         /\ ~ResponsePool[i].exception
         /\ data' = ResponsePool[i]
         /\ h' = stable_hash(ResponsePool[i])
    /\ fetched' = Append(fetched, bi)
    /\ pc' = "fetched"
    /\ UNCHANGED <<runs, constVars, INFLUX_TOKEN, fileVars, failure, resolveVars, batches, bi, state,
                   all_points, skipped, total_written, written, writes, lostWrite, lastRun>>
    /\ responses' = Append(responses, data')
    /\ slept' = FALSE

\* if state.get(batch_key) == h: continue
EtlSkip ==
    /\ pc = "fetched"
    /\ ShouldSkip(state, batch_key, h)
    /\ bi' = bi + 1
    /\ pc' = "etl_loop"
    /\ UNCHANGED <<envVars, fileVars, failure, resolveVars, batches, state,
                   data, h, all_points, skipped, total_written, fetched, written,
                   writes, histVars>>

\* Mutant: the loop over the features ends at the first one with an exception.
GoodFeaturesUntilMarked(features) ==
    LET marked == {i \in 1..Len(features) : Truthy(features[i].exception)}
    IN  IF marked = {} THEN features
        ELSE SubSeq(features, 1, (CHOOSE i \in marked : \A j \in marked : i <= j) - 1)

\* The features of the response that carry no exception.
GoodFeatures(features) == SelectSeq(features, LAMBDA f : ~Truthy(f.exception))

\* all_points of the loop over the features.
BatchPoints(features) ==
    LET good == GoodFeatures(features)
    IN  Concat([i \in 1..Len(good) |-> iter_timeseries_points(good[i])])

\* Mutant: the digest is recorded and saved before the points are written.
EtlTransformRecordsFirst ==
    /\ pc = "fetched"
    /\ ~ShouldSkip(state, batch_key, h)
    /\ IF \E i \in 1..Len(data.features) : FeatureRaises(data.features[i])
       THEN /\ Abort("transform")
            /\ UNCHANGED <<all_points, skipped, state, ledgerFile>>
       ELSE /\ all_points' = BatchPoints(data.features)
            /\ skipped' = Len(data.features) - Len(GoodFeatures(data.features))
            /\ state' = DictSet(state, batch_key, h)
            /\ ledgerFile' = DictSet(state, batch_key, h)
            /\ pc' = "transformed"
            /\ UNCHANGED failure
    /\ UNCHANGED <<envVars, placesFile, resolveVars, batches, bi, data, h,
                   total_written, fetched, written, writes, histVars>>

\* The loop over the features; iter_timeseries_points may raise.
EtlTransform ==
    /\ pc = "fetched"
    /\ ~ShouldSkip(state, batch_key, h)
    /\ IF \E i \in 1..Len(data.features) : FeatureRaises(data.features[i])
       THEN /\ Abort("transform")
            /\ UNCHANGED <<all_points, skipped>>
       ELSE /\ all_points' = BatchPoints(data.features)
            /\ skipped' = Len(data.features) - Len(GoodFeatures(data.features))
            /\ pc' = "transformed"
            /\ UNCHANGED failure
    /\ UNCHANGED <<envVars, fileVars, resolveVars, batches, bi, state, data, h,
                   total_written, fetched, written, writes, histVars>>

\* p.tag(k, str(v or "")) and p.field(fk, fv) for one point.
InfluxPoint(p) ==
    [measurement |-> "forecast_hourly", time |-> p.ts,
     tags |-> [t \in DOMAIN p.tags |-> OrEmpty(p.tags[t])],
     fields |-> p.fields]

\* influx_points, the records write_to_influx hands to write_api.write.
write_to_influx(points) == [i \in 1..Len(points) |-> InfluxPoint(points[i])]

\* write_to_influx raises: credentials missing.
WriteNoCredentials ==
    /\ pc = "transformed"
    /\ INFLUX_TOKEN \in {"unread", "unset"}
    /\ INFLUX_TOKEN' = "unset"
    /\ Abort("writer_credentials")
    /\ UNCHANGED <<runs, constVars, API_KEY, fileVars, resolveVars, etlVars, histVars>>

\* Mutant: the ledger is recorded although the writer raised.
WriteErrorRecords ==
    /\ pc = "transformed"
    /\ INFLUX_TOKEN \in {"unread", "set"}
    /\ INFLUX_TOKEN' = "set"
    /\ all_points # <<>>
    /\ Abort("writer_io")
    /\ state' = DictSet(state, batch_key, h)
    /\ ledgerFile' = DictSet(state, batch_key, h)
    /\ UNCHANGED <<runs, constVars, API_KEY, placesFile, resolveVars, batches, bi, data, h, all_points,
                   skipped, total_written, fetched, written, writes, histVars>>

\* write_api.write raises; it is only called for a non-empty list.
WriteError ==
    /\ pc = "transformed"
    /\ INFLUX_TOKEN \in {"unread", "set"}
    /\ INFLUX_TOKEN' = "set"
    /\ all_points # <<>>
    /\ Abort("writer_io")
    /\ UNCHANGED <<runs, constVars, API_KEY, fileVars, resolveVars, etlVars, histVars>>

\* written = write_to_influx(all_points); total_written += written
WriteOk ==
    /\ pc = "transformed"
    /\ INFLUX_TOKEN \in {"unread", "set"}
    /\ INFLUX_TOKEN' = "set"
    /\ written' = Len(write_to_influx(all_points))
    /\ total_written' = total_written + Len(write_to_influx(all_points))
    /\ writes' = Append(writes, bi)
    /\ pc' = "written"
    /\ UNCHANGED <<runs, constVars, API_KEY, fileVars, failure, resolveVars, batches, bi, state, data,
                   h, all_points, skipped, fetched, histVars>>

\* Mutant: a batch without points is not recorded.
EtlRecordIfPoints ==
    /\ pc = "written"
    /\ state' = IF written > 0 THEN DictSet(state, batch_key, h) ELSE state
    /\ ledgerFile' = IF written > 0 THEN DictSet(state, batch_key, h) ELSE ledgerFile
    /\ pc' = "etl_sleep"
    /\ UNCHANGED <<envVars, placesFile, failure, resolveVars, batches, bi,
                   data, h, all_points, skipped, total_written, fetched, written,
                   writes, histVars>>

\* Mutant: key and digest are swapped in the ledger entry.
EtlRecordSwapped ==
    /\ pc = "written"
    /\ state' = DictSet(state, h, batch_key)
    /\ ledgerFile' = DictSet(state, h, batch_key)
    /\ pc' = "etl_sleep"
    /\ UNCHANGED <<envVars, placesFile, failure, resolveVars, batches, bi,
                   data, h, all_points, skipped, total_written, fetched, written,
                   writes, histVars>>

\* state[batch_key] = h; save_json(STATE_PATH, state)
EtlRecord ==
    /\ pc = "written"
    /\ state' = DictSet(state, batch_key, h)
    /\ ledgerFile' = DictSet(state, batch_key, h)
    /\ pc' = "etl_sleep"
    /\ UNCHANGED <<envVars, placesFile, failure, resolveVars, batches, bi,
                   data, h, all_points, skipped, total_written, fetched, written,
                   writes, histVars>>

\* time.sleep(0.5), then the next batch.
EtlSleep ==
    /\ pc = "etl_sleep"
    /\ bi' = bi + 1
    /\ pc' = "etl_loop"
    /\ UNCHANGED <<envVars, fileVars, failure, resolveVars, batches, state,
                   data, h, all_points, skipped, total_written, fetched, written,
                   writes, lostWrite, lastRun, responses>>
    /\ slept' = TRUE

\* The loop is over: print the total and return.
EtlDone ==
    /\ pc = "etl_loop"
    /\ bi > Len(batches)
    /\ pc' = "done"
    /\ UNCHANGED <<envVars, fileVars, failure, resolveVars, etlVars, histVars>>

Next ==
    \/ StartRun
    \/ Crash
    \/ ResolveCached
    \/ SearchNoKey
    \/ SearchFail
    \/ SearchEmpty
    \/ SearchFound
    \/ ResolveSleep
    \/ ResolveSave
    \/ MainExit
    \/ EtlStart
    \/ FetchNoKey
    \/ FetchHttpError
    \/ FetchException
    \/ FetchOk
    \/ EtlSkip
    \/ EtlTransform
    \/ WriteNoCredentials
    \/ WriteError
    \/ WriteOk
    \/ EtlRecord
    \/ EtlSleep
    \/ EtlDone

Spec == Init /\ [][Next]_vars

SpecMain == InitMain /\ [][Next]_vars

\* ================================================================ claims
EtlPcs == {"etl_loop", "fetched", "transformed", "written", "etl_sleep", "done"}

\* The ledger, in memory and on disk, holds digest d for key k.
LedgerHolds(k, d) ==
    /\ DictHas(state, k) /\ DictGet(state, k) = d
    /\ DictHas(ledgerFile, k) /\ DictGet(ledgerFile, k) = d

\* C1: a batch whose key maps to digest D in the ledger and whose fetched
\* response has digest D is neither transformed nor written, its ledger entry
\* stays D, and the run goes on to the next batch.
C1_SkipUnchangedBatch ==
    [][(/\ pc = "fetched"
        /\ DictHas(state, batch_key) /\ DictGet(state, batch_key) = h
        /\ pc' # "idle")
       => /\ writes' = writes /\ written' = written
          /\ total_written' = total_written
          /\ all_points' = all_points
          /\ state' = state /\ ledgerFile' = ledgerFile
          /\ DictGet(state', batch_key) = h
          /\ failure' = "none"
          /\ pc' = "etl_loop" /\ bi' = bi + 1]_vars

\* The first batch was skipped without any write and the second is fetched.
C1_Witness ==
    /\ pc = "fetched" /\ bi = 2 /\ fetched = <<1, 2>> /\ writes = <<>>
    /\ total_written = 0
    /\ DictHas(ledgerFile, Join(batches[1]))

FetchFailures == {"fetch_http", "fetch_exception"}

\* C2: a hard failure of a batch's fetch ends the run: nothing of the batch is
\* written, the ledger is not touched in memory nor on disk, the entries of
\* the earlier batches are still there, and the process requests nothing more.
C2_FetchFailureAborts ==
    [][/\ (failure' \in FetchFailures /\ failure \notin FetchFailures)
          => /\ pc' = "aborted"
             /\ writes' = writes /\ total_written' = total_written
             /\ state' = state /\ ledgerFile' = ledgerFile
             /\ \A j \in 1..(bi - 1) : DictHas(ledgerFile', Join(batches[j]))
       /\ (failure \in FetchFailures /\ runs' = runs)
          => /\ fetched' = fetched /\ writes' = writes
             /\ ledgerFile' = ledgerFile /\ pc' = "aborted"]_vars

\* The fetch of the second batch failed after the first one was recorded.
C2_Witness ==
    /\ failure \in FetchFailures /\ bi = 2 /\ writes = <<1>>
    /\ fetched = <<1, 2>>
    /\ DictHas(ledgerFile, Join(batches[1]))
    /\ ~DictHas(ledgerFile, Join(batches[2]))

WriterFailures == {"writer_credentials", "writer_io"}

\* C3: the ledger changes, in memory and on disk, only by the entry of a batch
\* whose points the writer has accepted, which becomes the new digest; when the
\* writer fails the ledger is unchanged in memory and on disk.
C3_LedgerAfterWrite ==
    [][/\ (ledgerFile' # ledgerFile \/ (pc \in EtlPcs /\ pc' \in EtlPcs /\ state' # state))
          => /\ writes # <<>> /\ writes[Len(writes)] = bi
             /\ written = Len(all_points)
             /\ state' = DictSet(state, batch_key, h)
             /\ ledgerFile' = state'
       /\ (failure' \in WriterFailures /\ failure \notin WriterFailures)
          => /\ state' = state /\ ledgerFile' = ledgerFile
             /\ writes' = writes /\ pc' = "aborted"]_vars

\* The writer failed for a batch whose key an earlier run recorded with another
\* digest: the entry is the old one.
C3_Witness ==
    /\ failure \in WriterFailures
    /\ DictHas(ledgerFile, batch_key)
    /\ DictGet(ledgerFile, batch_key) # h
    /\ DictGet(state, batch_key) = DictGet(ledgerFile, batch_key)

\* The batch at hand is the one the previous process wrote without recording
\* it, and is fetched with the same digest.
LostBatchAgain ==
    /\ lostWrite # NoLoss
    /\ lostWrite[3] = runs - 1
    /\ pc \in {"fetched", "transformed", "written", "etl_sleep"}
    /\ lostWrite[1] = batch_key
    /\ lostWrite[2] = h
    /\ \A j \in 1..(bi - 1) : Join(batches[j]) # batch_key

\* C4: a batch written by a process killed before the ledger was saved is not
\* skipped by the next run: the ledger does not hold its digest when it is
\* fetched, it is transformed and written again, and then recorded.
C4_ReprocessAfterCrash ==
    [][LostBatchAgain =>
        /\ pc = "fetched"
             => /\ ~(DictHas(state, batch_key) /\ DictGet(state, batch_key) = h)
                /\ pc' \in {"transformed", "aborted", "idle"}
                /\ pc' # "idle" => bi' = bi
        /\ pc = "written" => writes # <<>> /\ writes[Len(writes)] = bi
        /\ (pc = "written" /\ pc' # "idle")
             => /\ DictHas(ledgerFile', batch_key)
                /\ DictGet(ledgerFile', batch_key) = h]_vars

\* The batch lost by the killed process has been written again and recorded.
C4_Witness ==
    /\ LostBatchAgain /\ pc = "etl_sleep" /\ written > 0
    /\ writes # <<>> /\ writes[Len(writes)] = bi
    /\ DictGet(ledgerFile, batch_key) = h

\* C5 as stated: no findPlaces request is made for a query whose key maps, in
\* the cache loaded from the file, to an entry with a non-null id.
C5_NonNullNeverSearched ==
    [][Len(searched') = Len(searched) + 1
       => ~(DictHas(cache, CurrentKey) /\ DictGet(cache, CurrentKey).id # Null)]_vars

\* C5, amended: no findPlaces request is made for a query whose key maps to an
\* entry with a non-null, non-empty id, be it loaded from the file or stored
\* earlier in the run.
C5_ResolvedNeverSearched ==
    [][Len(searched') = Len(searched) + 1
       => /\ ~(DictHas(out, CurrentKey) /\ Truthy(DictGet(out, CurrentKey).id))
          /\ ~(DictHas(cache, CurrentKey) /\ Truthy(DictGet(cache, CurrentKey).id))]_vars

\* A second run passed over a query that the file resolves, without a request.
C5_Witness ==
    /\ runs = 2 /\ pc = "resolve" /\ qi = 2 /\ searched = <<>>
    /\ DictHas(cache, normalize_query(place_queries[1]))
    /\ Truthy(DictGet(cache, normalize_query(place_queries[1])).id)

\* C6: after every batch that has been fetched and gone through (skipped, or
\* processed with its write done), the ledger holds the digest of its response
\* for its key, in memory and on disk, whatever the number of its points.
C6_LedgerHoldsDigest ==
    /\ pc = "etl_sleep" => LedgerHolds(batch_key, h)
    /\ (pc \in {"etl_loop", "fetched", "done"} /\ bi > 1 /\ fetched # <<>>
        /\ fetched[Len(fetched)] = bi - 1)
       => LedgerHolds(Join(batches[bi - 1]), h)

\* A batch whose features gave no point at all has been recorded.
C6_Witness ==
    /\ pc = "etl_sleep" /\ written = 0 /\ all_points = <<>> /\ skipped = 1
    /\ Len(data.features) = 2
    /\ LedgerHolds(batch_key, h)

\* Query i of the run has an entry with a non-null id.
QueryResolved(i) ==
    /\ DictHas(out, normalize_query(place_queries[i]))
    /\ DictGet(out, normalize_query(place_queries[i])).id # Null

LastSearchEmpty(k) ==
    \E i \in 1..Len(searched) :
        /\ normalize_query(searched[i].query) = k
        /\ searched[i].ok /\ searched[i].features = <<>>
        /\ \A j \in (i + 1)..Len(searched) : normalize_query(searched[j].query) # k

\* C9: a request that returns no feature stores the unresolved entry (id None)
\* under the normalized key and the loop goes on with the next query; the
\* file written at the end holds that entry.
C9_EmptyResultIsSoft ==
    [][/\ (/\ Len(searched') = Len(searched) + 1
           /\ searched'[Len(searched')].ok
           /\ searched'[Len(searched')].features = <<>>)
          => /\ DictHas(out', CurrentKey)
             /\ DictGet(out', CurrentKey) = [id |-> Null, query |-> CurrentQuery]
             /\ pc' = "resolve" /\ failure' = "none"
             /\ qi' = qi + 1 /\ place_queries' = place_queries
             /\ placesFile' = placesFile
       /\ placesFile' # placesFile
          => \A k \in DictKeys(out) :
                LastSearchEmpty(k)
                    => DictHas(placesFile', k) /\ DictGet(placesFile', k).id = Null]_vars

\* After a request without features a later query was requested, and the file
\* written at the end holds the unresolved entry.
C9_Witness ==
    /\ pc = "main_ids" /\ Len(searched) = 2
    /\ searched[1].ok /\ searched[1].features = <<>>
    /\ searched[2].ok /\ searched[2].features # <<>>
    /\ DictGet(placesFile, normalize_query(searched[1].query)).id = Null
    /\ Truthy(DictGet(placesFile, normalize_query(searched[2].query)).id)

SearchFailures == {"search_http", "search_exception"}

\* C10: the cache file is written once per resolution, after the last query,
\* and then holds every key loaded at the start and every key of this run,
\* with this run's entry where there is one and the loaded entry otherwise;
\* when a request fails the resolution ends there and the file is not written.
C10_CacheSavedOnce ==
    [][/\ placesFile' # placesFile => placeSaves' = placeSaves + 1
       /\ placeSaves' = placeSaves + 1 =>
             /\ placeSaves = 0 /\ placesFile = cache
             /\ pc = "resolve" /\ qi > Len(place_queries)
             /\ DictKeys(placesFile') = DictKeys(cache) \cup DictKeys(produced)
             /\ \A k \in DictKeys(produced) : DictGet(placesFile', k) = DictGet(produced, k)
             /\ \A k \in DictKeys(cache) \ DictKeys(produced) :
                    DictGet(placesFile', k) = DictGet(cache, k)
       /\ (failure' \in SearchFailures /\ failure \notin SearchFailures) =>
             /\ pc' = "aborted" /\ placeSaves' = 0
             /\ placesFile' = placesFile /\ placesFile = cache
             /\ Len(searched') >= 1 /\ ~searched'[Len(searched')].ok
             /\ searched'[Len(searched')].query = place_queries[qi]
             /\ \A i \in 1..(Len(searched') - 1) : searched'[i].ok
       /\ (failure \in SearchFailures /\ runs' = runs) =>
             /\ placesFile' = placesFile /\ placeSaves' = placeSaves
             /\ searched' = searched /\ pc' = "aborted"]_vars

\* A file with old entries was rewritten with the entries of this run added.
C10_Witness ==
    /\ pc = "main_ids" /\ placeSaves = 1
    /\ cache # EmptyDict /\ Len(produced) = 2
    /\ Len(placesFile) = Len(cache) + 2

\* The features of a response that carry the per-feature exception marker.
MarkedFeatures(features) == SelectSeq(features, LAMBDA f : Truthy(f.exception))

\* The points of every feature of a response that carries no marker, in order.
PointsOfUnmarked(features) ==
    Concat([i \in 1..Len(features) |->
              IF Truthy(features[i].exception) THEN <<>>
              ELSE iter_timeseries_points(features[i])])

\* C11: in a processed batch a feature with the per-feature exception marker
\* gives no point and is counted as skipped, every other feature is transformed
\* and its points are the ones written, and the marker does not end the batch.
C11_FeatureExceptionIsSoft ==
    [][/\ (/\ pc = "fetched" /\ pc' \notin {"idle", "etl_loop"}
           /\ \A i \in 1..Len(data.features) : ~FeatureRaises(data.features[i]))
          => /\ pc' = "transformed" /\ failure' = "none"
             /\ skipped' = Len(MarkedFeatures(data.features))
             /\ all_points' = PointsOfUnmarked(data.features)
       /\ (pc = "transformed" /\ pc' = "written")
          => /\ written' = Len(all_points)
             /\ writes' = Append(writes, bi)
             /\ all_points = PointsOfUnmarked(data.features)]_vars

\* A response of three features, the second one marked, has been written: the
\* two points of the first feature and the two of the third.
C11_Witness ==
    /\ pc = "written" /\ Len(data.features) = 3
    /\ Truthy(data.features[2].exception)
    /\ skipped = 1 /\ written = 4 /\ Len(all_points) = 4
    /\ all_points[1].tags.variable = TEMPERATURE
    /\ all_points[4].tags.variable = WIND

\* C12 as stated: between two consecutive findPlaces requests of one
\* resolution, time.sleep has been called.
C12_DelayBetweenSearches ==
    [][(Len(searched') = Len(searched) + 1 /\ searched # <<>>) => slept]_vars

\* C13 as stated: between the forecast requests of two consecutive batches of
\* one run, time.sleep has been called.
C13_DelayBetweenBatches ==
    [][(Len(fetched') = Len(fetched) + 1 /\ fetched # <<>>) => slept]_vars

\* The previous process ran run_etl to its end over the batches of this one,
\* and every response of this process so far is the one it got then.
RepeatsLastRun ==
    /\ lastRun # NoRun
    /\ pc \in EtlPcs
    /\ batches = lastRun[1]
    /\ Len(responses) <= Len(lastRun[2])
    /\ \A j \in 1..Len(responses) : responses[j] = lastRun[2][j]

\* C19: a run that follows a completed run over the same list of ids and gets
\* the same response for every batch skips every batch, writes no point and
\* leaves the ledger file as it was.
C19_RerunIsIdempotent ==
    [][RepeatsLastRun =>
        /\ writes = <<>> /\ total_written = 0
        /\ pc \in {"etl_loop", "fetched", "done"}
        /\ pc = "fetched" => DictHas(state, batch_key) /\ DictGet(state, batch_key) = h
        /\ (pc = "fetched" /\ pc' # "idle") => pc' = "etl_loop" /\ bi' = bi + 1
        /\ ledgerFile' = ledgerFile]_vars

\* A second run over two batches got the responses of the first run and ended
\* without a write.
C19_Witness ==
    /\ runs = 2 /\ pc = "done" /\ RepeatsLastRun
    /\ Len(batches) = 2 /\ responses = lastRun[2] /\ fetched = <<1, 2>>
    /\ writes = <<>> /\ total_written = 0
    /\ Len(ledgerFile) = 2

\* ------------------------------------------------------- chunked on its own
\* Lists of at most len identifiers.
RECURSIVE IdLists(_)
IdLists(len) ==
    IF len = 0 THEN {<<>>}
    ELSE IdLists(len - 1) \cup
         {Append(l, id) : l \in {m \in IdLists(len - 1) : Len(m) = len - 1},
                          id \in {<<"1">>, <<"2">>}}

\* meteosix_to_influx.py is not run as a program.
NoProgram ==
    /\ runs = 0 /\ pc = "idle" /\ failure = "none"
    /\ deployed = {}
    /\ API_KEY = "unread" /\ INFLUX_TOKEN = "unread"
    /\ placesFile = EmptyDict
    /\ ledgerFile = EmptyDict
    /\ lostWrite = NoLoss /\ lastRun = NoRun
    /\ InitLocals

programVars ==
    <<etlProgramVars, fileVars, pc, failure, resolveVars, etlVars, histVars>>

InitChunk ==
    /\ NoProgram
    /\ NoPickCall /\ NoTransformCall /\ NoPoller
    /\ xs \in IdLists(MaxChunkLen)
    /\ n \in 1..MaxChunkSize
    /\ chunks = <<>>
    /\ chunkDone = FALSE

CallChunked ==
    /\ ~chunkDone
    /\ chunks' = chunked(xs, n)
    /\ chunkDone' = TRUE
    /\ UNCHANGED <<programVars, xs, n, pickVars, tsVars, pollVars>>

NextChunk == CallChunked

SpecChunk == InitChunk /\ [][NextChunk]_vars

\* C7: for every list and positive size, the chunks of chunked concatenate to
\* the list, each chunk has at most size elements, every chunk but the last has
\* exactly size elements, and there are ceil(len / size) chunks (none for []).
C7_ChunkedPartitions ==
    chunkDone =>
        /\ Concat(chunks) = xs
        /\ \A j \in 1..Len(chunks) : Len(chunks[j]) <= n
        /\ \A j \in 1..(Len(chunks) - 1) : Len(chunks[j]) = n
        /\ Len(chunks) = (Len(xs) + n - 1) \div n
        /\ (xs = <<>> => chunks = <<>>)

\* A list longer than the size, not a multiple of it, has been chunked.
C7_Witness ==
    chunkDone /\ Len(xs) > n /\ Len(xs) % n # 0 /\ n > 1 /\ Len(chunks) = 2

\* ---------------------------------------------- pick_best_feature on its own
\* Most features in a findPlaces response given to pick_best_feature.
MaxPickFeatures == 3

\* Names a returned feature may carry; None when the name is missing.
PlaceNames == { <<"V", "x">>, <<"V">>, <<" ", "v">>, <<"l">>, Null }

\* Queries, as PLACE_QUERIES holds them: not blank.
PickQueries == { <<"v">>, <<" ", "V">>, <<"x">> }

\* Lists of at most len features; the id of a feature is its position.
RECURSIVE FeatureLists(_)
FeatureLists(len) ==
    IF len = 0 THEN {<<>>}
    ELSE FeatureLists(len - 1) \cup
         {Append(l, PlaceFeature(<<Digits[len + 1]>>, name)) :
            l \in {m \in FeatureLists(len - 1) : Len(m) = len - 1},
            name \in PlaceNames}

InitPick ==
    /\ NoProgram
    /\ NoChunkCall /\ NoTransformCall /\ NoPoller
    /\ pickQuery \in PickQueries
    /\ pickFeatures \in FeatureLists(MaxPickFeatures)
    /\ pickBest = <<>>
    /\ pickDone = FALSE

CallPick ==
    /\ ~pickDone
    /\ pickBest' = pick_best_feature(pickQuery, pickFeatures)
    /\ pickDone' = TRUE
    /\ UNCHANGED <<programVars, chunkVars, pickQuery, pickFeatures, tsVars, pollVars>>

NextPick == CallPick

SpecPick == InitPick /\ [][NextPick]_vars

\* The positions of the features whose name, trimmed and lowercased, is the
\* trimmed and lowercased query.
ExactMatches ==
    {i \in 1..Len(pickFeatures) :
        /\ pickFeatures[i].properties.name # Null
        /\ Lower(Strip(pickFeatures[i].properties.name)) = Lower(Strip(pickQuery))}

\* C14: pick_best_feature selects the first feature whose name normalizes to
\* the normalized query, wherever it is in the list; without such a feature
\* the first returned feature; and no feature for an empty list.
C14_ExactMatchFirst ==
    pickDone =>
        /\ ExactMatches # {} =>
              \E i \in ExactMatches :
                  /\ \A j \in ExactMatches : i <= j
                  /\ pickBest = <<pickFeatures[i]>>
        /\ (ExactMatches = {} /\ pickFeatures # <<>>) => pickBest = <<pickFeatures[1]>>
        /\ pickFeatures = <<>> => pickBest = <<>>

\* For the query "v" and features named "Vx", "V", "V" the second was selected.
C14_Witness ==
    /\ pickDone /\ pickQuery = <<"v">> /\ Len(pickFeatures) = 3
    /\ pickFeatures[1].properties.name = <<"V", "x">>
    /\ pickFeatures[2].properties.name = <<"V">>
    /\ pickFeatures[3].properties.name = <<"V">>
    /\ pickBest = <<pickFeatures[2]>>

\* ----------------------------------------- iter_timeseries_points on its own
\* Most hourly records in the variable of a feature given to
\* iter_timeseries_points.
MaxHourly == 3

\* Hourly records a forecast response may hold. The wind values are JSON
\* numbers, the scalar values are strings.
HourlyPool ==
    { HourlyValue(T1, <<"1", "8", ".", "5">>, Null, Null, Null),
      HourlyValue(T2, <<>>, Null, Null, Null),
      HourlyValue(T3, <<"N", "/", "A">>, Null, Null, Null),
      HourlyValue(T1, Null, <<"1", "2", ".", "3">>, <<"2", "7", "0">>, Null),
      HourlyValue(T2, <<"5">>, <<"1">>, Null, Null),
      HourlyValue(T2, Null, Null, <<"9", "0">>, Null),
      HourlyValue(Null, <<"7">>, <<"1">>, <<"1">>, Null),
      HourlyValue(T3, Null, Null, Null, <<"r">>),
      HourlyValue(T3, Null, Null, Null, Null),
      HourlyValue(<<"?">>, <<"1">>, Null, Null, Null) }

\* Lists of at most len hourly records.
RECURSIVE HourlyLists(_)
HourlyLists(len) ==
    IF len = 0 THEN {<<>>}
    ELSE HourlyLists(len - 1) \cup
         {Append(l, hv) : l \in {m \in HourlyLists(len - 1) : Len(m) = len - 1},
                          hv \in HourlyPool}

\* Features of one day and one variable, with or without the exception marker;
\* the variable may lack its name.
FeatureInputs ==
    {ForecastFeature(exc, <<" ", "1">>, << ForecastVariable(name, values) >>) :
        exc \in {Null, <<"e">>},
        name \in {TEMPERATURE, WIND, Null},
        values \in HourlyLists(MaxHourly)}

InitPoints ==
    /\ NoProgram
    /\ NoChunkCall /\ NoPickCall /\ NoPoller
    /\ tsFeature \in FeatureInputs
    /\ tsPoints = <<>>
    /\ tsRaised = FALSE
    /\ tsDone = FALSE

\* iter_timeseries_points(feature) returns its list or raises.
CallTransform ==
    /\ ~tsDone
    /\ tsRaised' = FeatureRaises(tsFeature)
    /\ tsPoints' = IF FeatureRaises(tsFeature) THEN <<>>
                   ELSE iter_timeseries_points(tsFeature)
    /\ tsDone' = TRUE
    /\ UNCHANGED <<programVars, chunkVars, pickVars, tsFeature, pollVars>>

NextPoints == CallTransform

SpecPoints == InitPoints /\ [][NextPoints]_vars

\* The variable of the feature given to iter_timeseries_points.
TsVariable == tsFeature.properties.days[1].variables[1]

TsIsWind == TsVariable.name = WIND

\* The call returned the points of a feature without exception marker.
TsReturned == tsDone /\ ~tsRaised /\ tsFeature.exception = Null

HasTime(hv) == hv.timeInstant # Null /\ hv.timeInstant # <<>>

HasValue(hv) == hv.value # Null /\ hv.value # <<>>

HasModelRun(hv) == hv.modelRun # Null /\ hv.modelRun # <<>>

\* Point j comes from record j of recs and carries the tags of the place and
\* of the variable.
PointsOfRecords(pts, recs) ==
    /\ Len(pts) = Len(recs)
    /\ \A j \in 1..Len(pts) :
          /\ pts[j].ts = recs[j].timeInstant
          /\ pts[j].tags.place_id = <<"1">>
          /\ pts[j].tags.place_name = tsFeature.properties.name
          /\ pts[j].tags.variable = (IF TsVariable.name = Null THEN <<>> ELSE TsVariable.name)

\* C15 as stated: for a feature without marker and a non-wind variable there
\* is exactly one point for each record with a timeInstant and a present,
\* non-empty value, and no point for any other record.
C15_PointPerValue ==
    (TsReturned /\ ~TsIsWind) =>
        PointsOfRecords(tsPoints,
            SelectSeq(TsVariable.values, LAMBDA hv : HasTime(hv) /\ HasValue(hv)))

\* C15, amended: there is exactly one point for each record with a timeInstant
\* and a present, non-empty value or a modelRun, and no point for any other
\* record.
C15_PointPerValueOrModelRun ==
    (TsReturned /\ ~TsIsWind) =>
        PointsOfRecords(tsPoints,
            SelectSeq(TsVariable.values,
                LAMBDA hv : HasTime(hv) /\ (HasValue(hv) \/ HasModelRun(hv))))

\* Three temperature records, the second with an empty value, gave two points.
C15_Witness ==
    /\ TsReturned /\ TsVariable.name = TEMPERATURE
    /\ Len(TsVariable.values) = 3
    /\ TsVariable.values[1].value = <<"1", "8", ".", "5">>
    /\ TsVariable.values[2].value = <<>>
    /\ TsVariable.values[3].value = <<"N", "/", "A">>
    /\ Len(tsPoints) = 2
    /\ tsPoints[1].ts = T1 /\ tsPoints[2].ts = T3
    /\ tsPoints[1].tags.variable = TEMPERATURE /\ tsPoints[1].tags.place_id = <<"1">>

\* C16: no point returned by iter_timeseries_points has an empty field map.
C16_NoEmptyFields ==
    tsDone => \A j \in 1..Len(tsPoints) : Len(tsPoints[j].fields) >= 1

\* A record without any value or model run gave no point, the one next to it
\* did.
C16_Witness ==
    /\ TsReturned /\ Len(TsVariable.values) = 2
    /\ HasTime(TsVariable.values[1])
    /\ TsVariable.values[1] = HourlyValue(T3, Null, Null, Null, Null)
    /\ HasTime(TsVariable.values[2])
    /\ Len(tsPoints) = 1 /\ tsPoints[1].ts = TsVariable.values[2].timeInstant
    /\ Len(tsPoints[1].fields) = 1

\* C17: for the wind variable each record with a timeInstant and a module, a
\* direction or a model run gives one point; the point has the field
\* wind_module exactly when the module is present, wind_direction exactly when
\* the direction is present, each with the number of the record, and never
\* the fields value or value_str.
C17_WindFieldsIndependent ==
    (TsReturned /\ TsIsWind) =>
        LET recs == SelectSeq(TsVariable.values,
                        LAMBDA hv : /\ HasTime(hv)
                                    /\ \/ hv.moduleValue # Null
                                       \/ hv.directionValue # Null
                                       \/ HasModelRun(hv))
        IN  /\ PointsOfRecords(tsPoints, recs)
            /\ \A j \in 1..Len(tsPoints) :
                  LET f == tsPoints[j].fields
                  IN  /\ DictHas(f, "wind_module") <=> recs[j].moduleValue # Null
                      /\ DictHas(f, "wind_direction") <=> recs[j].directionValue # Null
                      /\ DictHas(f, "wind_module")
                            => DictGet(f, "wind_module") = ToFloat(recs[j].moduleValue)
                      /\ DictHas(f, "wind_direction")
                            => DictGet(f, "wind_direction") = ToFloat(recs[j].directionValue)
                      /\ ~DictHas(f, "value") /\ ~DictHas(f, "value_str")

\* Wind records with both values, with the module only (and a value key) and
\* with the direction only gave three points.
C17_Witness ==
    /\ TsReturned /\ TsIsWind /\ Len(tsPoints) = 3
    /\ tsPoints[1].fields =
         << [k |-> "wind_module", v |-> <<"1", "2", ".", "3">>],
            [k |-> "wind_direction", v |-> <<"2", "7", "0", ".", "0">>] >>
    /\ TsVariable.values[2].value = <<"5">>
    /\ tsPoints[2].fields = << [k |-> "wind_module", v |-> <<"1", ".", "0">>] >>
    /\ tsPoints[3].fields = << [k |-> "wind_direction", v |-> <<"9", "0", ".", "0">>] >>

\* The points that carry the field value or value_str.
ScalarPoints == SelectSeq(tsPoints, LAMBDA p : DictHas(p.fields, "value")
                                               \/ DictHas(p.fields, "value_str"))

\* C18: for a non-wind variable each record with a timeInstant and a present,
\* non-empty value gives one point with exactly one of value and value_str:
\* value with the number when float accepts the string, value_str with the
\* string otherwise; a value float rejects never makes the call raise.
C18_ValueOrValueStr ==
    (tsDone /\ tsFeature.exception = Null /\ ~TsIsWind) =>
        LET recs == SelectSeq(TsVariable.values, LAMBDA hv : HasTime(hv) /\ HasValue(hv))
        IN  /\ tsRaised =>
                  \E i \in 1..Len(TsVariable.values) :
                      /\ HasTime(TsVariable.values[i])
                      /\ ~IsIsoTime(TsVariable.values[i].timeInstant)
            /\ ~tsRaised =>
                  /\ PointsOfRecords(ScalarPoints, recs)
                  /\ \A j \in 1..Len(ScalarPoints) :
                        LET f == ScalarPoints[j].fields
                        IN  IF IsNumeric(recs[j].value)
                            THEN /\ DictHas(f, "value") /\ ~DictHas(f, "value_str")
                                 /\ DictGet(f, "value") = ToFloat(recs[j].value)
                            ELSE /\ DictHas(f, "value_str") /\ ~DictHas(f, "value")
                                 /\ DictGet(f, "value_str") = recs[j].value

\* The values "N/A" and "18.5" gave a point with value_str and one with value.
C18_Witness ==
    /\ TsReturned /\ ~TsIsWind /\ Len(TsVariable.values) = 2
    /\ TsVariable.values[1].value = <<"N", "/", "A">>
    /\ TsVariable.values[2].value = <<"1", "8", ".", "5">>
    /\ Len(tsPoints) = 2
    /\ tsPoints[1].fields = << [k |-> "value_str", v |-> <<"N", "/", "A">>] >>
    /\ tsPoints[2].fields = << [k |-> "value", v |-> <<"1", "8", ".", "5">>] >>

\* ------------------------------------------------------------- poller.py
\* Number of polling cycles explored.
MaxCycles == 2

LOCATIONS == <<"Santiago", "Vigo", "Coruna">>

pollerOther == <<programVars, chunkVars, pickVars, tsVars>>

InitPoller ==
    /\ NoProgram
    /\ NoChunkCall /\ NoPickCall /\ NoTransformCall
    /\ NoPoller

\* main(): the client is opened and the first cycle begins.
PollStart ==
    /\ pollPc = "off"
    /\ pollPc' = "loc"
    /\ pollCycle' = 1
    /\ pollLoc' = 1
    /\ pollLog' = <<>>
    /\ UNCHANGED <<pollerOther, pollPrev>>

InPollLoop == pollPc = "loc" /\ pollLoc <= Len(LOCATIONS)

PollOutcome(outcome) == [loc |-> LOCATIONS[pollLoc], outcome |-> outcome]

\* Mutant: the handler raises again and the exception leaves main.
PollCatchRaise(outcome) ==
    /\ pollLog' = Append(pollLog, PollOutcome(outcome))
    /\ pollPc' = "dead"
    /\ UNCHANGED <<pollLoc, pollCycle, pollPrev>>

\* An except clause of the loop body prints the error; the for loop goes on.
PollCatch(outcome) ==
    /\ pollLog' = Append(pollLog, PollOutcome(outcome))
    /\ pollPc' = "loc"
    /\ pollLoc' = pollLoc + 1
    /\ UNCHANGED <<pollCycle, pollPrev>>

\* fetch_weather: raise_for_status raises requests.HTTPError.
PollFetchHttpError ==
    /\ InPollLoop
    /\ PollCatch("http")
    /\ UNCHANGED pollerOther

\* fetch_weather: requests.get raises (no connection, timeout).
PollFetchNetworkError ==
    /\ InPollLoop
    /\ PollCatch("network")
    /\ UNCHANGED pollerOther

\* fetch_weather: r.json() raises on a body that is not JSON.
PollFetchBadBody ==
    /\ InPollLoop
    /\ PollCatch("unexpected")
    /\ UNCHANGED pollerOther

\* data = fetch_weather(loc)
PollFetchOk ==
    /\ InPollLoop
    /\ pollPc' = "got"
    /\ UNCHANGED <<pollerOther, pollCycle, pollLoc, pollLog, pollPrev>>

\* write_to_influx: no features, a warning and return.
PollWriteNoData ==
    /\ pollPc = "got"
    /\ pollLog' = Append(pollLog, PollOutcome("no_data"))
    /\ pollPc' = "loc"
    /\ pollLoc' = pollLoc + 1
    /\ UNCHANGED <<pollerOther, pollCycle, pollPrev>>

\* write_to_influx: the points are written.
PollWriteOk ==
    /\ pollPc = "got"
    /\ pollLog' = Append(pollLog, PollOutcome("ok"))
    /\ pollPc' = "loc"
    /\ pollLoc' = pollLoc + 1
    /\ UNCHANGED <<pollerOther, pollCycle, pollPrev>>

\* write_to_influx: write_api.write or a lookup in the document raises
\* something other than ValueError or TypeError.
PollWriteError ==
    /\ pollPc = "got"
    /\ PollCatch("write_error")
    /\ UNCHANGED pollerOther

\* The for loop is over: time.sleep(POLL_INTERVAL).
PollSleep ==
    /\ pollPc = "loc"
    /\ pollLoc > Len(LOCATIONS)
    /\ pollPc' = "sleep"
    /\ UNCHANGED <<pollerOther, pollCycle, pollLoc, pollLog, pollPrev>>

\* The sleep returns: while True begins the next cycle.
PollWake ==
    /\ pollPc = "sleep"
    /\ pollCycle < MaxCycles
    /\ pollPc' = "loc"
    /\ pollCycle' = pollCycle + 1
    /\ pollLoc' = 1
    /\ pollPrev' = pollLog
    /\ pollLog' = <<>>
    /\ UNCHANGED pollerOther

\* Ctrl+C: KeyboardInterrupt is no Exception and ends the process.
PollInterrupt ==
    /\ pollPc \in {"loc", "got", "sleep"}
    /\ pollPc' = "dead"
    /\ UNCHANGED <<pollerOther, pollCycle, pollLoc, pollLog, pollPrev>>

NextPoller ==
    \/ PollStart
    \/ PollFetchHttpError
    \/ PollFetchNetworkError
    \/ PollFetchBadBody
    \/ PollFetchOk
    \/ PollWriteNoData
    \/ PollWriteOk
    \/ PollWriteError
    \/ PollSleep
    \/ PollWake
    \/ PollInterrupt

SpecPoller == InitPoller /\ [][NextPoller]_vars

PollFailures == {"http", "network", "unexpected", "write_error"}

\* C20: a failure of the fetch or of the write of one location is caught: the
\* loop goes on with the next location, the cycle ends with every location
\* gone through, and after the sleep the next cycle begins; no failure ends
\* the process.
C20_PollerCatchesPerLocation ==
    [][/\ (/\ Len(pollLog') = Len(pollLog) + 1
           /\ pollLog'[Len(pollLog')].outcome \in PollFailures)
          => /\ pollPc' = "loc" /\ pollLoc' = pollLoc + 1
             /\ pollCycle' = pollCycle
             /\ pollLog'[Len(pollLog')].loc = LOCATIONS[pollLoc]
       /\ pollPc' = "sleep"
          => /\ Len(pollLog') = Len(LOCATIONS)
             /\ \A i \in 1..Len(LOCATIONS) : pollLog'[i].loc = LOCATIONS[i]
       /\ (pollPc = "sleep" /\ pollPc' \notin {"sleep", "dead"})
          => /\ pollPc' = "loc" /\ pollLoc' = 1 /\ pollCycle' = pollCycle + 1
       /\ pollPc' = "dead" => pollLog' = pollLog]_vars

\* The first cycle had an HTTP error for the first location and a failed
\* write for the last, the second location was written, and the second cycle
\* has begun with a network error.
C20_Witness ==
    /\ pollCycle = 2 /\ pollPc = "loc" /\ pollLoc = 2
    /\ pollPrev = << [loc |-> "Santiago", outcome |-> "http"],
                     [loc |-> "Vigo", outcome |-> "ok"],
                     [loc |-> "Coruna", outcome |-> "write_error"] >>
    /\ pollLog = << [loc |-> "Santiago", outcome |-> "network"] >>
====
